---- MODULE Spec2Model ----
(***************************************************************************)
(* Model of the Minesweeper knowledge-based inference engine of            *)
(* src/minesweeper/minesweeper.py: Sentence, MinesweeperAI and the part of *)
(* Minesweeper (the board) that supplies ground-truth neighbour counts,     *)
(* and of the tic-tac-toe player of src/tictactoe/tictactoe.py.            *)
(***************************************************************************)
EXTENDS Integers, Sequences, FiniteSets, TLC

\* ------------------------------------------------------------------ bounds
MaxHeight == 3
MaxWidth == 3
MaxCells == 9
MaxMines == 2
MaxCalls == 3
MaxFairCalls == 2
MaxMarkCalls == 2

VARIABLES height, width, board, moves_made, safes, mines, knowledge,
          pc, cell, count, changed, loc_safes, loc_mines, ret, calls,
          ttt_board

vars == <<height, width, board, moves_made, safes, mines, knowledge,
          pc, cell, count, changed, loc_safes, loc_mines, ret, calls,
          ttt_board>>

\* ------------------------------------------------------------ the board
\* all (i, j) with i in range(height), j in range(width)
all_cells == (0 .. height - 1) \X (0 .. width - 1)

\* the value make_safe_move / make_random_move return when there is no move
None == <<-1, -1>>

\* ret: the last method called on the MinesweeperAI and the value it returns
Return(op, value) == [op |-> op, value |-> value]

Max(a, b) == IF a >= b THEN a ELSE b
Min(a, b) == IF a <= b THEN a ELSE b

\* Minesweeper.nearby_mines: mines within one row and column of c, c excluded
nearby_mines(b, c) ==
  Cardinality({n \in ((c[1] - 1) .. (c[1] + 1)) \X ((c[2] - 1) .. (c[2] + 1)) :
                 /\ n # c
                 /\ 0 <= n[1] /\ n[1] < height /\ 0 <= n[2] /\ n[2] < width
                 /\ n \in b})

\* ------------------------------------------------------------- Sentence
Sentence(cells, cnt) == [cells |-> cells, count |-> cnt]

\* Sentence.__eq__
SentenceEq(a, b) == a.cells = b.cells /\ a.count = b.count

\* known_mines taking "some mine among the cells" for "every cell a mine"
known_mines_bug(s) == IF s.count > 0 THEN s.cells ELSE {}

\* Sentence.known_mines
known_mines(s) == IF Cardinality(s.cells) = s.count THEN s.cells ELSE {}

\* Sentence.known_safes
known_safes(s) == IF s.count = 0 THEN s.cells ELSE {}

\* mark_mine that removes the cell and forgets to lower the count
Sentence_mark_mine_bug(s, c) ==
  IF c \in s.cells THEN Sentence(s.cells \ {c}, s.count) ELSE s

\* Sentence.mark_mine
Sentence_mark_mine(s, c) ==
  IF c \in s.cells THEN Sentence(s.cells \ {c}, s.count - 1) ELSE s

\* Sentence.mark_safe
Sentence_mark_safe(s, c) ==
  IF c \in s.cells THEN Sentence(s.cells \ {c}, s.count) ELSE s

\* `sentence in list`: list membership through __eq__
InKnowledge(s, k) == \E i \in DOMAIN k : SentenceEq(s, k[i])

\* --------------------------------------------------------- MinesweeperAI
\* the loop of MinesweeperAI.mark_mine over self.knowledge
mark_mine_all(k, c) == [i \in DOMAIN k |-> Sentence_mark_mine(k[i], c)]

\* the loop of MinesweeperAI.mark_safe over self.knowledge
mark_safe_all(k, c) == [i \in DOMAIN k |-> Sentence_mark_safe(k[i], c)]

\* mark_mine that records the mine and leaves the sentences alone
mark_mine_bug(c) ==
  /\ mines' = mines \cup {c}
  /\ knowledge' = knowledge

\* MinesweeperAI.mark_mine
mark_mine(c) ==
  /\ mines' = mines \cup {c}
  /\ knowledge' = mark_mine_all(knowledge, c)

\* mark_safe assigning the set where it should add to it
mark_safe_bug(c) ==
  /\ safes' = {c}
  /\ knowledge' = mark_safe_all(knowledge, c)

\* MinesweeperAI.mark_safe
mark_safe(c) ==
  /\ safes' = safes \cup {c}
  /\ knowledge' = mark_safe_all(knowledge, c)

\* the neighbourhood ranges ending at c + 1 where they should end at c + 2
neighbors_bug(c) ==
  {n \in (Max(0, c[1] - 1) .. (Min(height, c[1] + 1) - 1))
           \X (Max(0, c[2] - 1) .. (Min(width, c[2] + 1) - 1)) : n # c}

\* add_knowledge step 3: in-bounds cells around c, c excluded
neighbors(c) ==
  {n \in (Max(0, c[1] - 1) .. (Min(height, c[1] + 2) - 1))
           \X (Max(0, c[2] - 1) .. (Min(width, c[2] + 2) - 1)) : n # c}

\* the neighbourhood less the safe cells only
undetermined_cells_bug(c, sf, mn) == neighbors(c) \ sf

\* line 208

undetermined_cells(c, sf, mn) == (neighbors(c) \ sf) \ mn

\* the new sentence's count left at the observed count
adjusted_count_bug(c, cnt, mn) == cnt

adjusted_count(c, cnt, mn) == cnt - Cardinality(neighbors(c) \cap mn)

\* the append without the test for an equal sentence in the knowledge
append_new_sentence_bug(k, c, cnt, sf, mn) ==
  LET new_sentence == Sentence(undetermined_cells(c, sf, mn), adjusted_count(c, cnt, mn))
  IN  IF undetermined_cells(c, sf, mn) # {}
      THEN Append(k, new_sentence)
      ELSE k

\* lines 211-214: append the new sentence unless empty or already present
append_new_sentence(k, c, cnt, sf, mn) ==
  LET new_sentence == Sentence(undetermined_cells(c, sf, mn), adjusted_count(c, cnt, mn))
  IN  IF undetermined_cells(c, sf, mn) # {} /\ ~InKnowledge(new_sentence, k)
      THEN Append(k, new_sentence)
      ELSE k

\* lines 223-225: union of known_safes / known_mines over the knowledge
collect_safes(k) == UNION {known_safes(k[i]) : i \in DOMAIN k}

\* the collection loop stopping one sentence short of the end of the list
collect_mines_bug(k) == UNION {known_mines(k[i]) : i \in 1 .. (Len(k) - 1)}

collect_mines(k) == UNION {known_mines(k[i]) : i \in DOMAIN k}

\* a filter that lets the empty sentences through
remove_empty_bug(k) == SelectSeq(k, LAMBDA s : Cardinality(s.cells) >= 0)

\* line 236
remove_empty(k) == SelectSeq(k, LAMBDA s : Cardinality(s.cells) > 0)

\* the subset test with its operands swapped
subset_pair_bug(s1, s2) ==
  /\ ~SentenceEq(s1, s2)
  /\ s1.cells # {}
  /\ s2.cells # {}
  /\ s2.cells \subseteq s1.cells

\* line 241: the pair (s1, s2) qualifies for subset inference
subset_pair(s1, s2) ==
  /\ ~SentenceEq(s1, s2)
  /\ s1.cells # {}
  /\ s2.cells # {}
  /\ s1.cells \subseteq s2.cells

\* line 245: the derived sentence is appended to new_sentences
novel(new_s, k, new_sentences) ==
  /\ ~InKnowledge(new_s, k)
  /\ ~InKnowledge(new_s, new_sentences)
  /\ Cardinality(new_s.cells) > 0

\* lines 238-247: the two nested loops over self.knowledge, pair number p
\* (s1 = k[p div n], s2 = k[p mod n]), accumulating new_sentences
RECURSIVE subset_loop(_, _, _)
subset_loop(k, p, new_sentences) ==
  IF p >= Len(k) * Len(k) THEN new_sentences
  ELSE LET s1 == k[(p \div Len(k)) + 1]
           s2 == k[(p % Len(k)) + 1]
           new_s == Sentence(s2.cells \ s1.cells, s2.count - s1.count)
       IN  IF subset_pair(s1, s2) /\ novel(new_s, k, new_sentences)
           THEN subset_loop(k, p + 1, Append(new_sentences, new_s))
           ELSE subset_loop(k, p + 1, new_sentences)

\* the outer loop skipping the first sentence of the knowledge as s1
subset_inference_bug(k) == subset_loop(k, Len(k), <<>>)

subset_inference(k) == subset_loop(k, 0, <<>>)

\* changed set for every qualifying pair, outside the test for a new sentence
inference_changed_bug(k) ==
  \E i \in DOMAIN k : \E j \in DOMAIN k :
    subset_pair(k[i], k[j]) /\ k[j].cells \ k[i].cells # {}

\* the derivation of new sentences leaving changed as it was
inference_changed_off(k) == FALSE

\* line 247: changed is set whenever a derived sentence is appended
inference_changed(k) == Len(subset_inference(k)) > 0

\* safe moves without the moves already made taken out
safe_moves_bug == safes

\* make_safe_move line 260
safe_moves == safes \ moves_made

\* possible moves without the known mines taken out
possible_moves_bug == all_cells \ moves_made

\* make_random_move line 276
possible_moves == (all_cells \ moves_made) \ mines

\* the phase after the current marking step of a pass
next_phase(ls, lm) ==
  IF ls # {} THEN "mark_safes" ELSE IF lm # {} THEN "mark_mines" ELSE "remove_empty"

\* ------------------------------------------- add_knowledge as a function
\* the fields of a MinesweeperAI
KB(mm, sf, mn, k) == [moves_made |-> mm, safes |-> sf, mines |-> mn, knowledge |-> k]

\* lines 227-230 run to the end of the loop: mark_safe for each cell of new
RECURSIVE mark_safes_loop(_, _)
mark_safes_loop(k, new) ==
  IF new = {} THEN k
  ELSE LET c == CHOOSE c \in new : TRUE
       IN  mark_safes_loop(mark_safe_all(k, c), new \ {c})

\* lines 231-234 run to the end of the loop: mark_mine for each cell of new
RECURSIVE mark_mines_loop(_, _)
mark_mines_loop(k, new) ==
  IF new = {} THEN k
  ELSE LET c == CHOOSE c \in new : TRUE
       IN  mark_mines_loop(mark_mine_all(k, c), new \ {c})

\* lines 219-248: one pass of the inference loop over the fields s; changed
\* is the flag the pass leaves for the loop test
inference_pass(s) ==
  LET new_safes == collect_safes(s.knowledge) \ s.safes
      new_mines == collect_mines(s.knowledge) \ s.mines
      marked == mark_mines_loop(mark_safes_loop(s.knowledge, new_safes), new_mines)
      kept == remove_empty(marked)
  IN  [kb |-> KB(s.moves_made, s.safes \cup new_safes, s.mines \cup new_mines,
                 kept \o subset_inference(kept)),
       changed |-> (new_safes # {} \/ new_mines # {} \/ inference_changed(kept))]

\* lines 217-248: passes until one leaves changed false
RECURSIVE inference_loop(_)
inference_loop(s) ==
  LET r == inference_pass(s)
  IN  IF r.changed THEN inference_loop(r.kb) ELSE r.kb

\* lines 194-248: add_knowledge(c, cnt) on the fields s, from call to return
add_knowledge_result(s, c, cnt) ==
  LET sf == s.safes \cup {c}
      k == mark_safe_all(s.knowledge, c)
  IN  inference_loop(KB(s.moves_made \cup {c}, sf, s.mines,
                       append_new_sentence(k, c, cnt, sf, s.mines)))

\* a sequence of add_knowledge calls, one for each cell of a set with the
\* board's count, in one fixed order
RECURSIVE replay(_, _)
replay(s, cs) ==
  IF cs = {} THEN s
  ELSE LET c == CHOOSE x \in cs : TRUE
       IN  replay(add_knowledge_result(s, c, nearby_mines(board, c)), cs \ {c})

\* ------------------------------------------------------------ tic-tac-toe
X == "X"
O == "O"
\* Python's None, as the content of a free square and as "no winner"
EMPTY == "None"

initial_state ==
  <<<<EMPTY, EMPTY, EMPTY>>,
    <<EMPTY, EMPTY, EMPTY>>,
    <<EMPTY, EMPTY, EMPTY>>>>

\* row.count(p) summed over the rows
count_of(b, p) == Cardinality({a \in (0 .. 2) \X (0 .. 2) : b[a[1] + 1][a[2] + 1] = p})

player(b) == IF count_of(b, X) > count_of(b, O) THEN O ELSE X

actions(b) == {a \in (0 .. 2) \X (0 .. 2) : b[a[1] + 1][a[2] + 1] = EMPTY}

\* what result raises for an action off the board or on a taken square
Exception == "Invalid action"

result(b, action) ==
  LET i == action[1]
      j == action[2]
  IN  IF i < 0 \/ i > 2 \/ j < 0 \/ j > 2 \/ b[i + 1][j + 1] # EMPTY
      THEN Exception
      ELSE [b EXCEPT ![i + 1][j + 1] = player(b)]

\* lines 67-71: the first row that holds three X or three O
row_winner(b) ==
  IF b[1] = <<X, X, X>> THEN X
  ELSE IF b[1] = <<O, O, O>> THEN O
  ELSE IF b[2] = <<X, X, X>> THEN X
  ELSE IF b[2] = <<O, O, O>> THEN O
  ELSE IF b[3] = <<X, X, X>> THEN X
  ELSE IF b[3] = <<O, O, O>> THEN O
  ELSE EMPTY

\* line 75 for column j
column_full(b, j) == b[1][j] = b[2][j] /\ b[2][j] = b[3][j] /\ b[3][j] # EMPTY

\* lines 74-76: the first column of three equal marks
column_winner(b) ==
  IF column_full(b, 1) THEN b[1][1]
  ELSE IF column_full(b, 2) THEN b[1][2]
  ELSE IF column_full(b, 3) THEN b[1][3]
  ELSE EMPTY

winner(b) ==
  LET by_row == row_winner(b)
      by_column == column_winner(b)
  IN  IF by_row # EMPTY THEN by_row
      ELSE IF by_column # EMPTY THEN by_column
      ELSE IF b[1][1] = b[2][2] /\ b[2][2] = b[3][3] /\ b[3][3] # EMPTY THEN b[1][1]
      ELSE IF b[1][3] = b[2][2] /\ b[2][2] = b[3][1] /\ b[3][1] # EMPTY THEN b[1][3]
      ELSE EMPTY

terminal(b) ==
  IF winner(b) # EMPTY THEN TRUE
  ELSE \A i \in 1 .. 3 : \A j \in 1 .. 3 : b[i][j] # EMPTY

utility(b) ==
  LET winner_player == winner(b)
  IN  IF winner_player = X THEN 1
      ELSE IF winner_player = O THEN -1
      ELSE 0

\* float('inf'), above every utility
inf == 2

\* orders in which `for action in actions(board)` may visit the squares:
\* row by row, column by column, both backwards, and the order CPython
\* gives the set of all nine squares
iteration_orders ==
  {<<<<0, 0>>, <<0, 1>>, <<0, 2>>, <<1, 0>>, <<1, 1>>, <<1, 2>>, <<2, 0>>, <<2, 1>>, <<2, 2>>>>,
   <<<<2, 2>>, <<2, 1>>, <<2, 0>>, <<1, 2>>, <<1, 1>>, <<1, 0>>, <<0, 2>>, <<0, 1>>, <<0, 0>>>>,
   <<<<0, 0>>, <<1, 0>>, <<2, 0>>, <<0, 1>>, <<1, 1>>, <<2, 1>>, <<0, 2>>, <<1, 2>>, <<2, 2>>>>,
   <<<<2, 2>>, <<1, 2>>, <<0, 2>>, <<2, 1>>, <<1, 1>>, <<0, 1>>, <<2, 0>>, <<1, 0>>, <<0, 0>>>>,
   <<<<0, 1>>, <<1, 2>>, <<2, 1>>, <<0, 0>>, <<1, 1>>, <<2, 0>>, <<0, 2>>, <<2, 2>>, <<1, 0>>>>}

\* the actions of b in the order o
ordered_actions(b, o) ==
  LET possible_actions == actions(b)
  IN  SelectSeq(o, LAMBDA a : a \in possible_actions)

\* lines 125, 136: the rest of the actions is cut off
cutoff(alpha, beta) == beta <= alpha

RECURSIVE max_value(_, _, _, _)
RECURSIVE min_value(_, _, _, _)
RECURSIVE max_value_loop(_, _, _, _, _, _)
RECURSIVE min_value_loop(_, _, _, _, _, _)

\* lines 122-127: the loop of max_value over the remaining actions as
max_value_loop(b, as, v, alpha, beta, o) ==
  IF as = <<>> THEN v
  ELSE LET v2 == Max(v, min_value(result(b, Head(as)), alpha, beta, o))
           alpha2 == Max(alpha, v2)
       IN  IF cutoff(alpha2, beta) THEN v2
           ELSE max_value_loop(b, Tail(as), v2, alpha2, beta, o)

\* lines 133-138
min_value_loop(b, as, v, alpha, beta, o) ==
  IF as = <<>> THEN v
  ELSE LET v2 == Min(v, max_value(result(b, Head(as)), alpha, beta, o))
           beta2 == Min(beta, v2)
       IN  IF cutoff(alpha, beta2) THEN v2
           ELSE min_value_loop(b, Tail(as), v2, alpha, beta2, o)

max_value(b, alpha, beta, o) ==
  IF terminal(b) THEN utility(b)
  ELSE max_value_loop(b, ordered_actions(b, o), -inf, alpha, beta, o)

min_value(b, alpha, beta, o) ==
  IF terminal(b) THEN utility(b)
  ELSE min_value_loop(b, ordered_actions(b, o), inf, alpha, beta, o)

\* line 149 with the test made non-strict
better_for_X_bug(value, best_value) == value >= best_value

\* line 149
better_for_X(value, best_value) == value > best_value

\* line 159
better_for_O(value, best_value) == value < best_value

RECURSIVE X_loop(_, _, _, _, _, _, _)
RECURSIVE O_loop(_, _, _, _, _, _, _)

\* lines 147-152: the loop of minimax when X is to move
X_loop(b, as, best_value, best_action, alpha, beta, o) ==
  IF as = <<>> THEN best_action
  ELSE LET value == min_value(result(b, Head(as)), alpha, beta, o)
           better == better_for_X(value, best_value)
           best_value2 == IF better THEN value ELSE best_value
           best_action2 == IF better THEN Head(as) ELSE best_action
       IN  X_loop(b, Tail(as), best_value2, best_action2, Max(alpha, best_value2), beta, o)

\* lines 157-162: the loop of minimax when O is to move
O_loop(b, as, best_value, best_action, alpha, beta, o) ==
  IF as = <<>> THEN best_action
  ELSE LET value == max_value(result(b, Head(as)), alpha, beta, o)
           better == better_for_O(value, best_value)
           best_value2 == IF better THEN value ELSE best_value
           best_action2 == IF better THEN Head(as) ELSE best_action
       IN  O_loop(b, Tail(as), best_value2, best_action2, alpha, Min(beta, best_value2), o)

\* minimax(board), the sets of actions visited in the order o
minimax(b, o) ==
  IF terminal(b) THEN None
  ELSE IF player(b) = X
       THEN X_loop(b, ordered_actions(b, o), -inf, None, -inf, inf, o)
       ELSE O_loop(b, ordered_actions(b, o), inf, None, -inf, inf, o)

\* ------------------------------------------------------------------ Init
\* MinesweeperAI.__init__ for a board of height x width cells; board is the
\* mine layout of the game (Minesweeper.mines)
Init ==
  /\ height \in 1 .. MaxHeight
  /\ width \in 1 .. MaxWidth
  /\ height * width <= MaxCells
  /\ board \in {b \in SUBSET all_cells : Cardinality(b) <= MaxMines}
  /\ moves_made = {}
  /\ safes = {}
  /\ mines = {}
  /\ knowledge = <<>>
  /\ pc = "idle"
  /\ cell = None
  /\ count = 0
  /\ changed = FALSE
  /\ loc_safes = {}
  /\ loc_mines = {}
  /\ ret = Return("__init__", None)
  /\ calls = 0
  /\ ttt_board = initial_state

\* --------------------------------------------------------------- actions
\* add_knowledge lines 194-198, called by the game for a revealed cell c
\* with the board's count
add_knowledge(c) ==
  /\ pc = "idle"
  /\ calls < MaxCalls
  /\ c \notin board
  /\ calls' = calls + 1
  /\ cell' = c
  /\ count' = nearby_mines(board, c)
  /\ moves_made' = moves_made \cup {c}
  /\ mark_safe(c)
  /\ ret' = Return("add_knowledge", None)
  /\ pc' = "new_sentence"
  /\ UNCHANGED <<ttt_board, height, width, board, mines, changed, loc_safes, loc_mines>>

\* add_knowledge lines 200-217
new_sentence_step ==
  /\ pc = "new_sentence"
  /\ knowledge' = append_new_sentence(knowledge, cell, count, safes, mines)
  /\ changed' = TRUE
  /\ pc' = "while"
  /\ UNCHANGED <<ttt_board, height, width, board, moves_made, safes, mines, cell, count,
                 loc_safes, loc_mines, ret, calls>>

\* lines 218-225: the loop test and the collection of known safes and mines
while_enter ==
  /\ pc = "while"
  /\ changed
  /\ changed' = FALSE
  /\ loc_safes' = collect_safes(knowledge)
  /\ loc_mines' = collect_mines(knowledge)
  /\ pc' = next_phase(collect_safes(knowledge), collect_mines(knowledge))
  /\ UNCHANGED <<ttt_board, height, width, board, moves_made, safes, mines, knowledge, cell, count,
                 ret, calls>>

\* line 218 with changed false: add_knowledge returns
while_exit ==
  /\ pc = "while"
  /\ ~changed
  /\ pc' = "idle"
  /\ UNCHANGED <<ttt_board, height, width, board, moves_made, safes, mines, knowledge, cell, count,
                 changed, loc_safes, loc_mines, ret, calls>>

\* lines 227-230: one iteration of `for safe in safes`
mark_safes_step ==
  /\ pc = "mark_safes"
  /\ \E safe \in loc_safes :
       /\ loc_safes' = loc_safes \ {safe}
       /\ pc' = next_phase(loc_safes \ {safe}, loc_mines)
       /\ IF safe \notin safes
          THEN /\ mark_safe(safe)
               /\ changed' = TRUE
          ELSE UNCHANGED <<safes, knowledge, changed>>
  /\ UNCHANGED <<ttt_board, height, width, board, moves_made, mines, cell, count, loc_mines, ret, calls>>

\* lines 231-234: one iteration of `for mine in mines`
mark_mines_step ==
  /\ pc = "mark_mines"
  /\ \E mine \in loc_mines :
       /\ loc_mines' = loc_mines \ {mine}
       /\ pc' = next_phase({}, loc_mines \ {mine})
       /\ IF mine \notin mines
          THEN /\ mark_mine(mine)
               /\ changed' = TRUE
          ELSE UNCHANGED <<mines, knowledge, changed>>
  /\ UNCHANGED <<ttt_board, height, width, board, moves_made, safes, cell, count, loc_safes, ret, calls>>

\* line 236
remove_empty_step ==
  /\ pc = "remove_empty"
  /\ knowledge' = remove_empty(knowledge)
  /\ pc' = "subset_inference"
  /\ UNCHANGED <<ttt_board, height, width, board, moves_made, safes, mines, cell, count, changed,
                 loc_safes, loc_mines, ret, calls>>

\* lines 238-248
subset_inference_step ==
  /\ pc = "subset_inference"
  /\ knowledge' = knowledge \o subset_inference(knowledge)
  /\ changed' = (changed \/ inference_changed(knowledge))
  /\ pc' = "while"
  /\ UNCHANGED <<ttt_board, height, width, board, moves_made, safes, mines, cell, count,
                 loc_safes, loc_mines, ret, calls>>

\* make_safe_move: safe_moves.pop() pops any element of a fresh set
make_safe_move ==
  /\ pc = "idle"
  /\ IF safe_moves # {}
     THEN \E m \in safe_moves : ret' = Return("make_safe_move", m)
     ELSE ret' = Return("make_safe_move", None)
  /\ UNCHANGED <<ttt_board, height, width, board, moves_made, safes, mines, knowledge, pc, cell, count,
                 changed, loc_safes, loc_mines, calls>>

\* make_random_move: random.choice over possible_moves
make_random_move ==
  /\ pc = "idle"
  /\ IF possible_moves # {}
     THEN \E m \in possible_moves : ret' = Return("make_random_move", m)
     ELSE ret' = Return("make_random_move", None)
  /\ UNCHANGED <<ttt_board, height, width, board, moves_made, safes, mines, knowledge, pc, cell, count,
                 changed, loc_safes, loc_mines, calls>>

\* the steps inside a running add_knowledge call
Step ==
  \/ new_sentence_step
  \/ while_enter
  \/ while_exit
  \/ mark_safes_step
  \/ mark_mines_step
  \/ remove_empty_step
  \/ subset_inference_step

Next ==
  \/ \E c \in all_cells : add_knowledge(c)
  \/ Step
  \/ make_safe_move
  \/ make_random_move

Spec == Init /\ [][Next]_vars

\* MinesweeperAI.mark_safe called from outside add_knowledge, for a cell
\* that is not a mine of the layout
call_mark_safe(c) ==
  /\ pc = "idle"
  /\ calls < MaxMarkCalls
  /\ c \notin board
  /\ calls' = calls + 1
  /\ mark_safe(c)
  /\ ret' = Return("mark_safe", None)
  /\ UNCHANGED <<ttt_board, height, width, board, moves_made, mines, pc, cell, count, changed,
                 loc_safes, loc_mines>>

\* MinesweeperAI.mark_mine called from outside add_knowledge, for a mine
\* of the layout
call_mark_mine(c) ==
  /\ pc = "idle"
  /\ calls < MaxMarkCalls
  /\ c \in board
  /\ calls' = calls + 1
  /\ mark_mine(c)
  /\ ret' = Return("mark_mine", None)
  /\ UNCHANGED <<ttt_board, height, width, board, moves_made, safes, pc, cell, count, changed,
                 loc_safes, loc_mines>>

NextMarks ==
  \/ \E c \in all_cells : calls < MaxMarkCalls /\ add_knowledge(c)
  \/ Step
  \/ make_safe_move
  \/ make_random_move
  \/ \E c \in all_cells : call_mark_safe(c)
  \/ \E c \in all_cells : call_mark_mine(c)

\* the engine with mark_safe and mark_mine open to the caller
SpecMarks == Init /\ [][NextMarks]_vars

\* the calls and steps of add_knowledge alone
NextAdd ==
  \/ \E c \in all_cells : calls < MaxFairCalls /\ add_knowledge(c)
  \/ Step

\* add_knowledge is synchronous: once called, it runs each step to completion
FairSpec == Init /\ [][NextAdd]_vars /\ WF_vars(Step)

\* the game reporting revealed cells and nothing else: add_knowledge calls
\* without the move queries between them
NextCalls ==
  \/ \E c \in all_cells : add_knowledge(c)
  \/ Step

SpecCalls == Init /\ [][NextCalls]_vars

\* the cells a caller can pass: the grid and the ring of cells around it
callable_cells == (-1 .. height) \X (-1 .. width)

\* add_knowledge called with any of these cells; lines 194-205 test no bounds
NextAnyCell ==
  \/ \E c \in callable_cells : calls < MaxFairCalls /\ add_knowledge(c)
  \/ Step

\* the engine with add_knowledge open to cells outside the grid
SpecAnyCell == Init /\ [][NextAnyCell]_vars

\* ------------------------------------------------------ tic-tac-toe game
\* a game of tic-tac-toe next to a minesweeper engine that is left alone
InitGame ==
  /\ Init
  /\ height = 1
  /\ width = 1
  /\ board = {}

\* the player to move takes a free square: board = result(board, action);
\* the board result returns is the new ttt_board
play(action) ==
  /\ ~terminal(ttt_board)
  /\ action \in actions(ttt_board)
  /\ ttt_board' = result(ttt_board, action)
  /\ ret' = Return("result", None)
  /\ UNCHANGED <<height, width, board, moves_made, safes, mines, knowledge,
                 pc, cell, count, changed, loc_safes, loc_mines, calls>>

\* minimax(board) is called for the present board, once: the function keeps
\* no state, so a second call on the same board has the same answers
call_minimax ==
  /\ ret.op # "minimax"
  /\ \E o \in iteration_orders : ret' = Return("minimax", minimax(ttt_board, o))
  /\ UNCHANGED <<ttt_board, height, width, board, moves_made, safes, mines, knowledge,
                 pc, cell, count, changed, loc_safes, loc_mines, calls>>

NextGame ==
  \/ \E action \in (0 .. 2) \X (0 .. 2) : play(action)
  \/ call_minimax

SpecGame == InitGame /\ [][NextGame]_vars

TypeOK ==
  /\ board \subseteq all_cells
  /\ safes \subseteq all_cells
  /\ mines \subseteq all_cells
  /\ moves_made \subseteq all_cells
  /\ calls \in 0 .. MaxCalls

\* ------------------------------------------------------------- properties
\* C1 (soundness of deductions): whenever add_knowledge has returned, after
\* any sequence of calls on non-mine cells with the board's true counts, no
\* cell of safes is a mine of the layout and every cell of mines is one.
C1_Soundness ==
  pc = "idle" => (safes \cap board = {} /\ mines \subseteq board)

C1_Witness ==
  /\ pc = "idle"
  /\ calls >= 2
  /\ mines # {}
  /\ safes \ moves_made # {}

\* C2 (disjointness): in every reachable state, the states inside the
\* inference loop included, safes and mines have no cell in common.
C2_Disjoint == safes \cap mines = {}

C2_Witness ==
  /\ pc \in {"mark_safes", "mark_mines", "remove_empty", "subset_inference"}
  /\ mines # {}
  /\ safes \ moves_made # {}

\* a list position pair holding equal sentences
has_duplicates(k) ==
  \E i \in DOMAIN k : \E j \in DOMAIN k : i # j /\ SentenceEq(k[i], k[j])

\* C3 (no duplicate constraints): in no reachable state does knowledge hold
\* two constraints with equal cell sets and equal counts.
C3_NoDuplicates == ~has_duplicates(knowledge)
\* C4 (termination): every add_knowledge call reaches a pass that marks
\* nothing and derives nothing new (the loop test finds changed false), and
\* then returns.
C4_Terminates ==
  /\ (pc # "idle") ~> (pc = "idle")
  /\ [][(pc # "idle" /\ pc' = "idle") => (pc = "while" /\ ~changed)]_vars

C4_Witness ==
  /\ pc = "while"
  /\ ~changed
  /\ calls >= 2
  /\ mines # {}
  /\ safes \ moves_made # {}
\* some constraint of k says that all its cells are mines and holds c
owed_mine(k, c) ==
  \E i \in DOMAIN k : c \in k[i].cells /\ k[i].count = Cardinality(k[i].cells)

\* some constraint of k says that none of its cells is a mine and holds c
owed_safe(k, c) ==
  \E i \in DOMAIN k : c \in k[i].cells /\ k[i].count = 0

\* C5 (propagation completeness): once, during add_knowledge, a constraint
\* with count == |cells| holds a cell, the cell stays in such a constraint
\* until it is in mines, and it is in mines when add_knowledge returns; the
\* same for count == 0 and safes.
C5_Propagation ==
  [][\A c \in all_cells :
       /\ (pc # "idle" /\ (owed_mine(knowledge, c) \/ c \in mines))
            => (c \in mines' \/ (pc' # "idle" /\ owed_mine(knowledge', c)))
       /\ (pc # "idle" /\ (owed_safe(knowledge, c) \/ c \in safes))
            => (c \in safes' \/ (pc' # "idle" /\ owed_safe(knowledge', c)))]_vars

C5_Witness ==
  /\ pc = "mark_mines"
  /\ \E c \in loc_mines : owed_mine(knowledge, c) /\ c \notin mines
  /\ safes \ moves_made # {}

\* the cells and count subset inference owes for the pair (s1, s2)
difference(s1, s2) == [cells |-> s2.cells \ s1.cells, count |-> s2.count - s1.count]

\* s1 and s2 are non-empty, s1.cells is a subset of s2.cells and the
\* difference of the cell sets is non-empty
proper_subset_pair(s1, s2) ==
  /\ s1.cells # {}
  /\ s1.cells \subseteq s2.cells
  /\ s2.cells \ s1.cells # {}

\* c is a cell of a difference with count 0 at the subset inference of a pass
zero_difference(c) ==
  /\ pc = "subset_inference"
  /\ \E i \in DOMAIN knowledge : \E j \in DOMAIN knowledge :
       /\ proper_subset_pair(knowledge[i], knowledge[j])
       /\ knowledge[i].count = knowledge[j].count
       /\ c \in knowledge[j].cells \ knowledge[i].cells

\* C6 (subset inference): the subset inference of a pass leaves in knowledge
\* the constraint (S2.cells - S1.cells, S2.count - S1.count) for all
\* constraints S1, S2 it holds with S1.cells a proper non-empty subset of
\* S2.cells; and when the two counts are equal (as for {1,2,3}=1 and
\* {1,2}=1) the cells of the difference are in safes when add_knowledge returns.
C6_SubsetInference ==
  [][/\ pc = "subset_inference" =>
          \A i \in DOMAIN knowledge : \A j \in DOMAIN knowledge :
             proper_subset_pair(knowledge[i], knowledge[j])
               => \E n \in DOMAIN knowledge' :
                     knowledge'[n] = difference(knowledge[i], knowledge[j])
     /\ \A c \in all_cells :
          (pc # "idle" /\ (zero_difference(c) \/ owed_safe(knowledge, c) \/ c \in safes))
            => (c \in safes' \/ (pc' # "idle" /\ owed_safe(knowledge', c)))]_vars

\* the spec's example: a constraint of three cells and one of two of them,
\* both with count 1, meet at the subset inference
C6_Witness ==
  /\ pc = "subset_inference"
  /\ \E i \in DOMAIN knowledge : \E j \in DOMAIN knowledge :
       /\ Cardinality(knowledge[i].cells) = 2 /\ knowledge[i].count = 1
       /\ Cardinality(knowledge[j].cells) = 3 /\ knowledge[j].count = 1
       /\ knowledge[i].cells \subseteq knowledge[j].cells

\* C7 (make_safe_move): the call returns None when safes - moves_made is
\* empty and otherwise a cell of safes that is not in moves_made, and it
\* leaves safes, mines, moves_made and knowledge as they were.
C7_MakeSafeMove ==
  [][(ret' # ret /\ ret'.op = "make_safe_move") =>
       /\ (safes \ moves_made = {}) => ret'.value = None
       /\ (safes \ moves_made # {}) => (ret'.value \in safes /\ ret'.value \notin moves_made)
       /\ UNCHANGED <<safes, mines, moves_made, knowledge>>]_vars

C7_Witness ==
  /\ ret.op = "make_safe_move"
  /\ ret.value \in safes \ moves_made
  /\ mines # {}
  /\ knowledge # <<>>

\* C8 (make_random_move): the call returns None exactly when every cell of
\* the grid is in moves_made or mines, otherwise a cell of the grid that is
\* in neither; every such cell can be returned; safes, mines, moves_made and
\* knowledge stay as they were.
C8_MakeRandomMove ==
  /\ [][(ret' # ret /\ ret'.op = "make_random_move") =>
          /\ (ret'.value = None) <=> (all_cells \subseteq (moves_made \cup mines))
          /\ (ret'.value # None) =>
               (ret'.value \in all_cells /\ ret'.value \notin moves_made
                  /\ ret'.value \notin mines)
          /\ UNCHANGED <<safes, mines, moves_made, knowledge>>]_vars
  /\ [](pc = "idle" =>
          \A c \in all_cells :
             (c \notin moves_made /\ c \notin mines)
               => ENABLED (make_random_move /\ ret'.value = c))

C8_Witness ==
  /\ ret.op = "make_random_move"
  /\ ret.value = None
  /\ mines # {}
  /\ Cardinality(moves_made) >= 2

\* C9 (monotonicity): no step of add_knowledge and of its inference loop, no
\* mark_safe, mark_mine, make_safe_move or make_random_move removes a cell
\* from safes, mines or moves_made.
C9_Monotonic ==
  [][safes \subseteq safes' /\ mines \subseteq mines'
       /\ moves_made \subseteq moves_made']_vars

C9_Witness ==
  /\ ret.op = "mark_mine"
  /\ Cardinality(safes) >= 3
  /\ Cardinality(mines) >= 1
  /\ moves_made # {}

\* the in-bounds cells at Chebyshev distance 1 of c
chebyshev(c) ==
  {n \in all_cells :
     /\ n # c
     /\ n[1] - c[1] \in {-1, 0, 1}
     /\ n[2] - c[2] \in {-1, 0, 1}}

\* C10 (zero observation): a first add_knowledge(cell, 0) returns with
\* every in-bounds neighbour of cell in safes, mines empty and no constraint
\* with a non-empty cell set in knowledge; on the 3x3 grid with cell (1,1)
\* the 8 other cells are in safes.
C10_ZeroObservation ==
  (pc = "idle" /\ calls = 1 /\ count = 0) =>
     /\ chebyshev(cell) \subseteq safes
     /\ mines = {}
     /\ \A i \in DOMAIN knowledge : knowledge[i].cells = {}
     /\ (height = 3 /\ width = 3 /\ cell = <<1, 1>>) =>
           (all_cells \ {<<1, 1>>}) \subseteq safes

C10_Witness ==
  /\ pc = "idle"
  /\ calls = 1
  /\ count = 0
  /\ height = 3
  /\ width = 3
  /\ cell = <<1, 1>>
  /\ Cardinality(safes) = 9

\* C11 (fixpoint idempotence): in the state in which add_knowledge returns,
\* one more inference pass changes none of safes, mines and knowledge.
C11_Idempotent ==
  (pc = "idle" /\ calls >= 1) =>
     LET again == inference_pass(KB(moves_made, safes, mines, knowledge)).kb
     IN  /\ again.safes = safes
         /\ again.mines = mines
         /\ again.knowledge = knowledge

C11_Witness ==
  /\ pc = "idle"
  /\ calls >= 2
  /\ Len(knowledge) >= 3
  /\ \E i \in DOMAIN knowledge : \E j \in DOMAIN knowledge :
       i # j /\ knowledge[i].cells \subseteq knowledge[j].cells

\* C12 (constraint count): when add_knowledge has returned, after any
\* sequence of calls with the board's counts on non-mine cells, every
\* constraint in knowledge has 0 <= count <= |cells|.
C12_CountInRange ==
  pc = "idle" =>
     \A i \in DOMAIN knowledge :
        0 <= knowledge[i].count /\ knowledge[i].count <= Cardinality(knowledge[i].cells)

\* a constraint that has lost a marked mine and still counts one
C12_Witness ==
  /\ pc = "idle"
  /\ mines # {}
  /\ \E i \in DOMAIN knowledge :
       /\ knowledge[i].count >= 1
       /\ knowledge[i].count < Cardinality(knowledge[i].cells)

\* C13 (out-of-bounds observation): add_knowledge with a cell outside
\* [0,height) x [0,width) does not return normally with the cell recorded:
\* when add_knowledge has returned, moves_made and safes hold grid cells only.
C13_OutOfBoundsRejected ==
  pc = "idle" => (moves_made \subseteq all_cells /\ safes \subseteq all_cells)

\* the constraint add_knowledge offers for the observed cell: the in-bounds
\* neighbours that are neither in safes nor in mines, and the observed count
\* less the neighbours already in mines
offered ==
  [cells |-> (chebyshev(cell) \ safes) \ mines,
   count |-> count - Cardinality(chebyshev(cell) \cap mines)]

\* an equal constraint (same cells, same count) is already in knowledge
offered_present ==
  \E i \in DOMAIN knowledge :
     knowledge[i].cells = offered.cells /\ knowledge[i].count = offered.count

\* the step that builds the new constraint appends exactly the offered one,
\* and only when it is non-empty and not yet present
construction_step ==
  pc = "new_sentence" =>
     /\ cell \in safes
     /\ knowledge' = IF offered.cells # {} /\ ~offered_present
                     THEN Append(knowledge, offered)
                     ELSE knowledge

\* add_knowledge((0,0), 2) as the first call on a 3x3 grid has returned
corner_scenario ==
  /\ height = 3 /\ width = 3
  /\ pc = "idle" /\ calls = 1 /\ ret.op = "add_knowledge"
  /\ cell = <<0, 0>> /\ count = 2

\* C14 (constraint construction): the constraint offered to knowledge is
\* (N - safes - mines, count - |N \cap mines|) with safes already holding the
\* observed cell, appended only if non-empty and not already present; on a
\* fresh 3x3 grid add_knowledge((0,0), 2) returns with the single constraint
\* {(0,1),(1,0),(1,1)} = 2, safes = {(0,0)} and no mines.
C14_Construction ==
  /\ [][construction_step]_vars
  /\ [](corner_scenario =>
          /\ knowledge = <<[cells |-> {<<0, 1>>, <<1, 0>>, <<1, 1>>}, count |-> 2]>>
          /\ safes = {<<0, 0>>}
          /\ mines = {})

\* the corner scenario has happened
C14_Witness == corner_scenario /\ Len(knowledge) = 1

\* the cell a mark_mine call was given, when it was not yet in mines
marked_mine == CHOOSE c \in mines' \ mines : TRUE

\* effect and frame of one mark_mine call; for a cell that is already in
\* mines, and so in no constraint, everything stays as it is
mark_mine_effect ==
  /\ safes' = safes
  /\ moves_made' = moves_made
  /\ Len(knowledge') = Len(knowledge)
  /\ IF mines' = mines
     THEN knowledge' = knowledge
     ELSE /\ Cardinality(mines' \ mines) = 1
          /\ mines' = mines \cup {marked_mine}
          /\ \A i \in DOMAIN knowledge :
                IF marked_mine \in knowledge[i].cells
                THEN /\ knowledge'[i].cells = knowledge[i].cells \ {marked_mine}
                     /\ knowledge'[i].count = knowledge[i].count - 1
                ELSE knowledge'[i] = knowledge[i]

\* C15 (mark_mine): a call of mark_mine(cell), from outside or from the
\* inference loop, adds cell to mines, removes it from every constraint that
\* holds it and lowers that constraint's count by 1; the other constraints,
\* the number and order of constraints, safes and moves_made stay as they are.
C15_MarkMine ==
  [][(mines' # mines \/ (ret' # ret /\ ret'.op = "mark_mine")) => mark_mine_effect]_vars

\* add_knowledge(cell, count) and then a caller's mark_mine of a neighbour of
\* cell: the constraint of cell has lost that neighbour and one of its count
C15_Witness ==
  /\ ret.op = "mark_mine"
  /\ calls = 2
  /\ moves_made = {cell}
  /\ Cardinality(mines) = 1
  /\ mines \subseteq chebyshev(cell)
  /\ Len(knowledge) = 1
  /\ knowledge[1].cells = (chebyshev(cell) \ mines)
  /\ knowledge[1].count = count - 1
  /\ knowledge[1].count >= 1

\* C16 (empty constraints are pruned): in the state in which add_knowledge
\* returns no constraint of knowledge has an empty cell set.
C16_NoEmptyConstraint ==
  pc = "idle" => \A i \in DOMAIN knowledge : knowledge[i].cells # {}

\* a call has returned after a pass found a mine, which empties the constraint
\* it was found in, while other constraints are still held
C16_Witness ==
  /\ pc = "idle"
  /\ calls >= 2
  /\ knowledge # <<>>
  /\ mines # {}
  /\ safes \ moves_made # {}

\* C17 (known cells leave the constraints): between operations, after any
\* sequence of add_knowledge, mark_safe and mark_mine calls, no constraint of
\* knowledge holds a cell that is in safes or in mines.
C17_NoKnownCellInConstraint ==
  pc = "idle" =>
     \A i \in DOMAIN knowledge : knowledge[i].cells \cap (safes \cup mines) = {}

\* a caller's mark has made a cell known before an observation next to it,
\* and constraints are held
C17_Witness ==
  /\ pc = "idle"
  /\ ret.op = "add_knowledge"
  /\ calls = 2
  /\ Cardinality(moves_made) = 1
  /\ (safes \cup mines) \cap chebyshev(cell) # {}
  /\ knowledge # <<>>

\* the knowledge base as it stands
current == KB(moves_made, safes, mines, knowledge)

\* C18 (repeated observation): once add_knowledge calls with the board's
\* counts have returned, add_knowledge for a cell already reported, with the
\* same count, leaves safes, mines, moves_made and the sequence of
\* constraints as they are.
C18_RepeatedObservation ==
  pc = "idle" =>
     \A c \in moves_made :
        add_knowledge_result(current, c, nearby_mines(board, c)) = current

\* a cell has been reported twice while constraints are held and cells have
\* been inferred
C18_Witness ==
  /\ pc = "idle"
  /\ calls > Cardinality(moves_made)
  /\ Cardinality(moves_made) >= 2
  /\ knowledge # <<>>
  /\ (safes \ moves_made) \cup mines # {}

\* the knowledge base after the cells reported so far, reported in one fixed
\* order to a fresh engine
replayed == replay(KB({}, {}, {}, <<>>), moves_made)

\* C19 (order independence): for a fixed layout and a fixed set of revealed
\* cells with the board's counts, safes, mines and moves_made after the calls
\* are the same in whatever order the cells were passed to add_knowledge.
C19_OrderIndependent ==
  pc = "idle" =>
     LET r == replayed
     IN  /\ safes = r.safes
         /\ mines = r.mines
         /\ moves_made = r.moves_made

\* three different cells have been reported and cells have been inferred
\* from more than one constraint
C19_Witness ==
  /\ pc = "idle"
  /\ Cardinality(moves_made) = 3
  /\ mines # {}
  /\ safes \ moves_made # {}
  /\ knowledge # <<>>

\* the eight lines of three squares
lines ==
  {{<<1, 1>>, <<1, 2>>, <<1, 3>>}, {<<2, 1>>, <<2, 2>>, <<2, 3>>}, {<<3, 1>>, <<3, 2>>, <<3, 3>>},
   {<<1, 1>>, <<2, 1>>, <<3, 1>>}, {<<1, 2>>, <<2, 2>>, <<3, 2>>}, {<<1, 3>>, <<2, 3>>, <<3, 3>>},
   {<<1, 1>>, <<2, 2>>, <<3, 3>>}, {<<1, 3>>, <<2, 2>>, <<3, 1>>}}

\* p holds a line
has_line(b, p) == \E l \in lines : \A sq \in l : b[sq[1]][sq[2]] = p

\* the free squares
free(b) == {sq \in (1 .. 3) \X (1 .. 3) : b[sq[1]][sq[2]] = EMPTY}

\* the value of a board under best play of both sides, by plain minimax:
\* 1 or -1 when X or O holds a line, 0 when the board is full, else the
\* largest value of a successor when X is to move (as many X as O on the
\* board) and the smallest when O is
RECURSIVE game_value(_)
game_value(b) ==
  IF has_line(b, X) THEN 1
  ELSE IF has_line(b, O) THEN -1
  ELSE LET fr == free(b)
       IN  IF fr = {} THEN 0
           ELSE LET mover == IF Cardinality(fr) % 2 = 1 THEN X ELSE O
                    values == {game_value([b EXCEPT ![sq[1]][sq[2]] = mover]) : sq \in fr}
                IN  IF mover = X
                    THEN (IF 1 \in values THEN 1 ELSE IF 0 \in values THEN 0 ELSE -1)
                    ELSE (IF -1 \in values THEN -1 ELSE IF 0 \in values THEN 0 ELSE 1)

\* the free squares of the present board as actions (i, j), counted from 0
free_actions == {<<sq[1] - 1, sq[2] - 1>> : sq \in free(ttt_board)}

\* the present board after the player to move has taken the free square a
after(a) ==
  [ttt_board EXCEPT ![a[1] + 1][a[2] + 1] =
      IF Cardinality(free(ttt_board)) % 2 = 1 THEN X ELSE O]

\* C20 (tic-tac-toe minimax): on every board reached from initial_state by
\* legal alternating moves, minimax returns None if the board is terminal,
\* and otherwise an action of actions(board) whose resulting board has the
\* value of the board itself under best play: the largest value X can reach
\* when X is to move, the smallest when O is.
C20_Minimax ==
  ret.op = "minimax" =>
     IF has_line(ttt_board, X) \/ has_line(ttt_board, O) \/ free(ttt_board) = {}
     THEN ret.value = None
     ELSE /\ ret.value \in free_actions
          /\ game_value(after(ret.value)) = game_value(ttt_board)

\* minimax has answered on an unfinished board with five free squares on
\* which the actions differ in value, so that the choice matters
C20_Witness ==
  /\ ret.op = "minimax"
  /\ Cardinality(free(ttt_board)) = 5
  /\ ~has_line(ttt_board, X)
  /\ ~has_line(ttt_board, O)
  /\ ret.value \in free_actions
  /\ LET v == game_value(ttt_board)
     IN  \E a \in free_actions : game_value(after(a)) # v

====
